---------------------------- MODULE Spec2Model ----------------------------
(***************************************************************************)
(* Model of src/app.py: the Amazon PPC search-term optimizer.              *)
(*                                                                         *)
(* The script is a single sequential pass: clean the numeric columns,      *)
(* normalise the match type, aggregate by (term, campaign, ad group,       *)
(* match), derive ROAS, then TAB 1 (cannibalization, which calls           *)
(* determine_winner once per conflicting search term) and TAB 2            *)
(* (harvesting).                                                           *)
(*                                                                         *)
(* Text cells are sequences of one-character strings, so that upper() and  *)
(* lower(), the substring tests and the sort order of groupby are          *)
(* computed rather than assumed.  Amounts are naturals; a ROAS is the      *)
(* exact fraction [n, d] with d > 0, and comparisons of fractions are      *)
(* exact.  On the amounts used here (sales up to 4, spend up to 4) the     *)
(* float64 arithmetic of the script gives every comparison, and every      *)
(* printed percentage, the same outcome as the exact arithmetic; on        *)
(* larger amounts a float64 improvement can fall one unit in the last      *)
(* place short of a threshold it equals exactly (ROAS 1.0 against 0.4 at   *)
(* 150 per cent), which the model does not represent.                      *)
(***************************************************************************)
EXTENDS Integers, Sequences, FiniteSets, TLC

VARIABLES
    pc,                  \* position in the script
    df,                  \* the uploaded table (cleaned and extended in place)
    df_agg,              \* the aggregated table
    roas_threshold,      \* sidebar slider, per cent
    min_orders_for_roas, \* sidebar number input
    results,             \* TAB 1: the action table (list of dicts)
    tab1_msg,            \* TAB 1: "success" when st.success was shown
    new_opps,            \* TAB 2: harvest rows
    disp_opps,           \* TAB 2: the rows displayed, sorted
    tab2_msg,            \* TAB 2: "info" when st.info was shown
    group,               \* determine_winner called on its own: argument
    improvement_thresh,  \* determine_winner called on its own: argument
    min_orders,          \* determine_winner called on its own: argument
    ret                  \* determine_winner called on its own: return value

vars == <<pc, df, df_agg, roas_threshold, min_orders_for_roas, results,
          tab1_msg, new_opps, disp_opps, tab2_msg,
          group, improvement_thresh, min_orders, ret>>

----------------------------------------------------------------------------
(* Bounds of the model *)

MaxRows == 3
MaxGroup == 2
MaxMinOrders == 2

(* Program constants *)

SliderMin == 30
SliderMax == 200
SliderStep == 10
SliderDefault == 100
MinOrdersMin == 1
MinOrdersDefault == 2
InfiniteImprovement == 999

----------------------------------------------------------------------------
(* Text *)

\* The characters used, in code-point order.
Chars ==
    <<" ", "-", "/",
      "A", "B", "C", "D", "E", "F", "G", "H", "I", "J", "K", "L", "M",
      "N", "O", "P", "Q", "R", "S", "T", "U", "V", "W", "X", "Y", "Z",
      "a", "b", "c", "d", "e", "f", "g", "h", "i", "j", "k", "l", "m",
      "n", "o", "p", "q", "r", "s", "t", "u", "v", "w", "x", "y", "z">>

FirstUpper == CHOOSE i \in 1..Len(Chars) : Chars[i] = "A"
FirstLower == CHOOSE i \in 1..Len(Chars) : Chars[i] = "a"
Letters == FirstLower - FirstUpper

Ord(c) == CHOOSE i \in 1..Len(Chars) : Chars[i] = c

UpperChar(c) ==
    IF Ord(c) >= FirstLower /\ Ord(c) < FirstLower + Letters
    THEN Chars[Ord(c) - Letters] ELSE c

LowerChar(c) ==
    IF Ord(c) >= FirstUpper /\ Ord(c) < FirstUpper + Letters
    THEN Chars[Ord(c) + Letters] ELSE c

upper(s) == [i \in 1..Len(s) |-> UpperChar(s[i])]

lowerIdentity(s) == s

lower(s) == [i \in 1..Len(s) |-> LowerChar(s[i])]

\* Python's `sub in s`
Contains(sub, s) ==
    \E i \in 1..(Len(s) - Len(sub) + 1) : SubSeq(s, i, i + Len(sub) - 1) = sub

\* A missing cell (NaN / None).
NaN == <<"<NaN>">>

isna(v) == v = NaN

\* s < t in Python's string order
RECURSIVE StrLess(_, _)
StrLess(s, t) ==
    IF t = <<>> THEN FALSE
    ELSE IF s = <<>> THEN TRUE
    ELSE IF Ord(Head(s)) # Ord(Head(t)) THEN Ord(Head(s)) < Ord(Head(t))
    ELSE StrLess(Tail(s), Tail(t))

----------------------------------------------------------------------------
(* normalize_match_type *)

EXACT == <<"E", "X", "A", "C", "T">>
PHRASE == <<"P", "H", "R", "A", "S", "E">>
BROAD == <<"B", "R", "O", "A", "D">>
AUTO_OTHER == <<"A", "U", "T", "O", "/", "O", "T", "H", "E", "R">>
UNKNOWN == <<"U", "N", "K", "N", "O", "W", "N">>

normalize_match_type(val) ==
    IF isna(val) THEN UNKNOWN
    ELSE LET v == upper(val) IN
         IF Contains(EXACT, v) THEN EXACT
         ELSE IF Contains(PHRASE, v) THEN PHRASE
         ELSE IF Contains(BROAD, v) THEN BROAD
         ELSE AUTO_OTHER

----------------------------------------------------------------------------
(* Exact fractions: [n |-> numerator, d |-> denominator], d > 0 *)

Frac(n, d) == [n |-> n, d |-> d]
FracLess(a, b) == a.n * b.d < b.n * a.d
FracGeq(a, b) == a.n * b.d >= b.n * a.d
FracGt(a, b) == a.n * b.d > b.n * a.d
FracIsZero(a) == a.n = 0

\* round(n / d) to an integer, halves to the even neighbour, n >= 0, d > 0:
\* what the format specification .0% prints of n / d per cent
RoundHalfEven(n, d) ==
    LET q == n \div d
        r == n % d
    IN  IF 2 * r < d THEN q
        ELSE IF 2 * r > d THEN q + 1
        ELSE IF q % 2 = 0 THEN q ELSE q + 1

----------------------------------------------------------------------------
(* determine_winner(group, improvement_thresh, min_orders)                 *)
(* group: a non-empty sequence of aggregated rows, each carrying its       *)
(* index label idx; the labels are distinct.                               *)

\* Series.idxmax(): the label of the first row holding the maximum
idxmax_sales_last(g) ==
    LET i == CHOOSE i \in 1..Len(g) :
                 /\ \A j \in 1..Len(g) : g[j].sales_val <= g[i].sales_val
                 /\ \A j \in (i+1)..Len(g) : g[j].sales_val < g[i].sales_val
    IN  g[i].idx

idxmax_sales(g) ==
    LET i == CHOOSE i \in 1..Len(g) :
                 /\ \A j \in 1..Len(g) : g[j].sales_val <= g[i].sales_val
                 /\ \A j \in 1..(i-1) : g[j].sales_val < g[i].sales_val
    IN  g[i].idx

idxmax_roas(g) ==
    LET i == CHOOSE i \in 1..Len(g) :
                 /\ \A j \in 1..Len(g) :
                        ~FracLess(g[i].calculated_roas, g[j].calculated_roas)
                 /\ \A j \in 1..(i-1) :
                        FracLess(g[j].calculated_roas, g[i].calculated_roas)
    IN  g[i].idx

\* group.loc[label]
loc(g, label) == g[CHOOSE i \in 1..Len(g) : g[i].idx = label]

same_row_never(a, b) == FALSE

\* max_sales_idx == max_roas_idx
same_row(a, b) == a = b

\* lines 98-101: the relative ROAS improvement of the challenger
improvement_of(roas_sales, roas_challenger) ==
    IF FracIsZero(roas_sales)
    THEN Frac(InfiniteImprovement, 1)
    ELSE Frac(roas_challenger.n * roas_sales.d - roas_sales.n * roas_challenger.d,
              roas_challenger.d * roas_sales.n)

\* improvement_thresh / 100.0
threshold_decimal(thresh) == Frac(thresh, 100)

passes_strict(improvement, thresh) ==
    FracGt(improvement, threshold_decimal(thresh))

passes_reversed(improvement, thresh) ==
    FracGeq(threshold_decimal(thresh), improvement)

\* improvement >= threshold_decimal
passes(improvement, thresh) ==
    FracGeq(improvement, threshold_decimal(thresh))

\* f"{improvement:.0%}"
percent(improvement) == RoundHalfEven(improvement.n * 100, improvement.d)

BestSalesAndRoas == [text |-> "Best Sales & ROAS", arg |-> 0]
EfficientChoice(pct) == [text |-> "Efficient Choice (ROAS +%)", arg |-> pct]
VolLeader(orders) == [text |-> "Vol Leader (Challenger had only order)", arg |-> orders]
VolumeLeader == [text |-> "Volume Leader", arg |-> 0]

determine_winner(g, thresh, minord) ==
    LET max_sales_idx == idxmax_sales(g)
        sales_leader == loc(g, max_sales_idx)
        max_roas_idx == idxmax_roas(g)
        roas_leader == loc(g, max_roas_idx)
        roas_sales == sales_leader.calculated_roas
        roas_challenger == roas_leader.calculated_roas
        improvement == improvement_of(roas_sales, roas_challenger)
    IN  IF same_row(max_sales_idx, max_roas_idx)
        THEN [idx |-> max_sales_idx, reason |-> BestSalesAndRoas]
        ELSE IF passes(improvement, thresh) /\ roas_leader.orders_val >= minord
        THEN [idx |-> max_roas_idx, reason |-> EfficientChoice(percent(improvement))]
        ELSE IF passes(improvement, thresh)
        THEN [idx |-> max_sales_idx, reason |-> VolLeader(roas_leader.orders_val)]
        ELSE [idx |-> max_sales_idx, reason |-> VolumeLeader]

\* line 168: sales / spend if spend > 0 else 0
calculated_roas(sales_val, spend_val) ==
    IF spend_val > 0 THEN Frac(sales_val, spend_val) ELSE Frac(0, 1)

----------------------------------------------------------------------------
(* Lines 141-168: cleaning, normalisation, aggregation, ROAS               *)

Digits == <<"0", "1", "2", "3", "4", "5", "6", "7", "8", "9">>
IsDigit(c) == \E i \in 1..Len(Digits) : Digits[i] = c
DigitVal(c) == (CHOOSE i \in 1..Len(Digits) : Digits[i] = c) - 1

RECURSIVE ParseDigits(_, _)
ParseDigits(s, acc) ==
    IF s = <<>> THEN acc
    ELSE ParseDigits(Tail(s), acc * Len(Digits) + DigitVal(Head(s)))

\* pd.to_numeric(cell, errors='coerce'), then .fillna(0): a cell of digits
\* is its number; any other text, or a missing cell, becomes NaN and then 0
to_numeric_fillna0(cell) ==
    IF cell # NaN /\ cell # <<>> /\ \A i \in 1..Len(cell) : IsDigit(cell[i])
    THEN ParseDigits(cell, 0)
    ELSE 0

\* The groupby key of a row of df.
KeyOf(r) == <<r.term, r.camp, r.adg, r.norm_match>>

\* Tuples of strings in lexicographic order (the order groupby sorts by)
RECURSIVE KeyLess(_, _)
KeyLess(k1, k2) ==
    IF k1 = <<>> \/ k2 = <<>> THEN FALSE
    ELSE IF Head(k1) # Head(k2) THEN StrLess(Head(k1), Head(k2))
    ELSE KeyLess(Tail(k1), Tail(k2))

RECURSIVE SortKeys(_)
SortKeys(S) ==
    IF S = {} THEN <<>>
    ELSE LET m == CHOOSE k \in S : \A o \in S \ {k} : KeyLess(k, o)
         IN  <<m>> \o SortKeys(S \ {m})

RECURSIVE SumOver(_, _, _)
\* the sum of column col over the rows of d whose key is k
SumOver(d, k, col) ==
    IF d = <<>> THEN 0
    ELSE (IF KeyOf(Head(d)) = k THEN Head(d)[col] ELSE 0)
         + SumOver(Tail(d), k, col)

\* groupby(...) forms no group for a key with a missing component
\* (dropna=True is the default); norm_match is never missing.
groupby_keys(d) ==
    { KeyOf(d[i]) : i \in { j \in 1..Len(d) :
        ~isna(d[j].term) /\ ~isna(d[j].camp) /\ ~isna(d[j].adg) } }

\* lines 148-165: df.groupby([...], as_index=False).agg(sum), renamed; the
\* result is sorted by key and labelled 0, 1, 2, ...
aggregate(d) ==
    LET keys == SortKeys(groupby_keys(d))
    IN  [i \in 1..Len(keys) |->
            [idx |-> i - 1,
             search_term |-> keys[i][1],
             campaign |-> keys[i][2],
             ad_group |-> keys[i][3],
             norm_match |-> keys[i][4],
             orders_val |-> SumOver(d, keys[i], "orders"),
             sales_val |-> SumOver(d, keys[i], "sales"),
             spend_val |-> SumOver(d, keys[i], "spend")]]

----------------------------------------------------------------------------
(* Lines 183-216: TAB 1, cannibalization                                   *)

\* line 184: df_agg['orders_val'] > 0
has_orders(r) == r.orders_val > 0

sales_df_of(agg) == SelectSeq(agg, has_orders)

\* line 187: sales_df.groupby('search_term').size()
dupe_check(sales_df, term) ==
    Cardinality({ i \in 1..Len(sales_df) : sales_df[i].search_term = term })

is_dupe_any(n) == n >= 1

\* line 188: dupe_check > 1
is_dupe(n) == n > 1

RECURSIVE SortStrs(_)
SortStrs(S) ==
    IF S = {} THEN <<>>
    ELSE LET m == CHOOSE k \in S : \A o \in S \ {k} : StrLess(k, o)
         IN  <<m>> \o SortStrs(S \ {m})

\* line 188: the terms with more than one row, in the order of the index
cannibal_terms_of(sales_df) ==
    SortStrs({ sales_df[i].search_term : i \in
        { j \in 1..Len(sales_df) :
            is_dupe(dupe_check(sales_df, sales_df[j].search_term)) } })

KEEP == "KEEP"
NEGATE == "NEGATE"
LowerEfficiency == [text |-> "Lower Efficiency/Vol", arg |-> 0]

action_keep_from(idx, win_idx) == IF idx >= win_idx THEN KEEP ELSE NEGATE

\* lines 201-202
action_of(idx, win_idx) == IF idx = win_idx THEN KEEP ELSE NEGATE

\* lines 195-214: the rows appended for one term
rows_for_term(sales_df, term, thresh, minord) ==
    LET subset == SelectSeq(sales_df, LAMBDA r : r.search_term = term)
        win == determine_winner(subset, thresh, minord)
    IN  [i \in 1..Len(subset) |->
            [Search_Term |-> term,
             Campaign |-> subset[i].campaign,
             Ad_Group |-> subset[i].ad_group,
             Spend |-> subset[i].spend_val,
             Sales |-> subset[i].sales_val,
             Orders |-> subset[i].orders_val,
             ROAS |-> subset[i].calculated_roas,
             Status |-> action_of(subset[i].idx, win.idx),
             Reason |-> IF subset[i].idx = win.idx
                        THEN win.reason ELSE LowerEfficiency]]

RECURSIVE results_of(_, _, _, _)
results_of(sales_df, terms, thresh, minord) ==
    IF terms = <<>> THEN <<>>
    ELSE rows_for_term(sales_df, Head(terms), thresh, minord)
         \o results_of(sales_df, Tail(terms), thresh, minord)

----------------------------------------------------------------------------
(* Lines 250-268: TAB 2, harvesting                                        *)

\* line 251
exact_terms_of(agg) ==
    { lower(agg[i].search_term) : i \in
        { j \in 1..Len(agg) : agg[j].norm_match = EXACT } }

\* lines 255-258
candidates_of(agg) ==
    SelectSeq(agg, LAMBDA r : r.norm_match # EXACT /\ r.orders_val >= 1)

\* line 261
new_opps_of(agg) ==
    SelectSeq(candidates_of(agg),
              LAMBDA r : lower(r.search_term) \notin exact_terms_of(agg))

\* line 268: sort_values(by='sales_val', ascending=False); rows with equal
\* sales keep their order
RECURSIVE sort_by_sales_desc(_)
sort_by_sales_desc(d) ==
    IF d = <<>> THEN <<>>
    ELSE LET i == CHOOSE i \in 1..Len(d) :
                      /\ \A j \in 1..Len(d) : d[j].sales_val <= d[i].sales_val
                      /\ \A j \in 1..(i-1) : d[j].sales_val < d[i].sales_val
         IN  <<d[i]>> \o sort_by_sales_desc(SubSeq(d, 1, i - 1) \o SubSeq(d, i + 1, Len(d)))

----------------------------------------------------------------------------
(* The script, one action per block                                        *)

\* lines 142-143
CleanNumbers ==
    /\ pc = "clean"
    /\ df' = [i \in 1..Len(df) |->
                [df[i] EXCEPT !.orders = to_numeric_fillna0(@),
                              !.sales = to_numeric_fillna0(@),
                              !.spend = to_numeric_fillna0(@)]]
    /\ pc' = "normalize"
    /\ UNCHANGED <<df_agg, roas_threshold, min_orders_for_roas, results,
                   tab1_msg, new_opps, disp_opps, tab2_msg,
                   group, improvement_thresh, min_orders, ret>>

\* line 145
NormalizeMatch ==
    /\ pc = "normalize"
    /\ df' = [i \in 1..Len(df) |->
                [term |-> df[i].term, camp |-> df[i].camp, adg |-> df[i].adg,
                 match |-> df[i].match, orders |-> df[i].orders,
                 sales |-> df[i].sales, spend |-> df[i].spend,
                 norm_match |-> normalize_match_type(df[i].match)]]
    /\ pc' = "aggregate"
    /\ UNCHANGED <<df_agg, roas_threshold, min_orders_for_roas, results,
                   tab1_msg, new_opps, disp_opps, tab2_msg,
                   group, improvement_thresh, min_orders, ret>>

\* lines 148-165
Aggregate ==
    /\ pc = "aggregate"
    /\ df_agg' = aggregate(df)
    /\ pc' = "roas"
    /\ UNCHANGED <<df, roas_threshold, min_orders_for_roas, results,
                   tab1_msg, new_opps, disp_opps, tab2_msg,
                   group, improvement_thresh, min_orders, ret>>

\* line 168
CalcRoas ==
    /\ pc = "roas"
    /\ df_agg' = [i \in 1..Len(df_agg) |->
                    [idx |-> df_agg[i].idx,
                     search_term |-> df_agg[i].search_term,
                     campaign |-> df_agg[i].campaign,
                     ad_group |-> df_agg[i].ad_group,
                     norm_match |-> df_agg[i].norm_match,
                     orders_val |-> df_agg[i].orders_val,
                     sales_val |-> df_agg[i].sales_val,
                     spend_val |-> df_agg[i].spend_val,
                     calculated_roas |->
                         calculated_roas(df_agg[i].sales_val, df_agg[i].spend_val)]]
    /\ pc' = "tab1"
    /\ UNCHANGED <<df, roas_threshold, min_orders_for_roas, results,
                   tab1_msg, new_opps, disp_opps, tab2_msg,
                   group, improvement_thresh, min_orders, ret>>

\* lines 183-216
Tab1Cannibalization ==
    /\ pc = "tab1"
    /\ LET sales_df == sales_df_of(df_agg)
           cannibal_terms == cannibal_terms_of(sales_df)
       IN  IF cannibal_terms = <<>>
           THEN /\ tab1_msg' = "success"
                /\ results' = <<>>
           ELSE /\ tab1_msg' = ""
                /\ results' = results_of(sales_df, cannibal_terms,
                                         roas_threshold, min_orders_for_roas)
    /\ pc' = "tab2"
    /\ UNCHANGED <<df, df_agg, roas_threshold, min_orders_for_roas,
                   new_opps, disp_opps, tab2_msg,
                   group, improvement_thresh, min_orders, ret>>

\* lines 250-268
Tab2Harvest ==
    /\ pc = "tab2"
    /\ new_opps' = new_opps_of(df_agg)
    /\ IF new_opps_of(df_agg) = <<>>
       THEN /\ tab2_msg' = "info"
            /\ disp_opps' = <<>>
       ELSE /\ tab2_msg' = ""
            /\ disp_opps' = sort_by_sales_desc(new_opps_of(df_agg))
    /\ pc' = "done"
    /\ UNCHANGED <<df, df_agg, roas_threshold, min_orders_for_roas, results,
                   tab1_msg, group, improvement_thresh, min_orders, ret>>

Next ==
    \/ CleanNumbers
    \/ NormalizeMatch
    \/ Aggregate
    \/ CalcRoas
    \/ Tab1Cannibalization
    \/ Tab2Harvest

----------------------------------------------------------------------------
(* Uploaded tables                                                         *)

RawRow(t, c, g, m, o, sa, sp) ==
    [term |-> t, camp |-> c, adg |-> g, match |-> m,
     orders |-> o, sales |-> sa, spend |-> sp]

\* Amounts as the file gives them: orders, sales, spend.
Sold == <<<<"1">>, <<"2">>, <<"1">>>>
Unsold == <<<<"0">>, <<"0">>, <<"1">>>>
Dirty == <<<<"n", "/", "a">>, <<"3">>, NaN>>

\* Rows for the aggregation: keys that repeat, keys with a missing
\* component, a missing match type, clean and dirty amounts.
AggRows ==
    { RawRow(k[1], k[2], k[3], k[4], n[1], n[2], n[3]) :
        k \in { <<<<"a">>, <<"p">>, <<"g">>, <<"e", "x", "a", "c", "t">>>>,
                <<<<"a">>, <<"q">>, <<"g">>, <<"e", "x", "a", "c", "t">>>>,
                <<NaN, <<"p">>, <<"g">>, <<"e", "x", "a", "c", "t">>>>,
                <<<<"a">>, NaN, <<"g">>, <<"e", "x", "a", "c", "t">>>>,
                <<<<"a">>, <<"p">>, NaN, <<"e", "x", "a", "c", "t">>>>,
                <<<<"a">>, <<"p">>, <<"g">>, NaN>> },
        n \in { Sold, Dirty } }

\* Rows for TAB 1: one term in three campaigns, another in two, sold or not.
CannibalRows ==
    { RawRow(k[1], k[2], <<"g">>, <<"B", "r", "o", "a", "d">>, n[1], n[2], n[3]) :
        k \in { <<<<"a">>, <<"p">>>>, <<<<"a">>, <<"q">>>>, <<<<"a">>, <<"r">>>>,
                <<<<"b">>, <<"p">>>>, <<<<"b">>, <<"q">>>> },
        n \in { Sold, Unsold } }

\* Rows for TAB 2: terms that differ in case only, exact and other match
\* types, sold or not.
HarvestRows ==
    { RawRow(k[1], <<"p">>, <<"g">>, m, n[1], k[2], n[3]) :
        k \in { <<<<"a">>, <<"1">>>>, <<<<"A">>, <<"2">>>>, <<<<"b">>, <<"2">>>> },
        m \in { <<"E", "x", "a", "c", "t">>, <<"b", "r", "o", "a", "d">> },
        n \in { Sold, Unsold } }

InitPipeline(Rows, Thr, Mins) ==
    /\ pc = "clean"
    /\ \E n \in 0..MaxRows : df \in [1..n -> Rows]
    /\ roas_threshold \in Thr
    /\ min_orders_for_roas \in Mins
    /\ df_agg = <<>>
    /\ results = <<>>
    /\ tab1_msg = ""
    /\ new_opps = <<>>
    /\ disp_opps = <<>>
    /\ tab2_msg = ""
    /\ group = <<>>
    /\ improvement_thresh = SliderDefault
    /\ min_orders = MinOrdersDefault
    /\ ret = [idx |-> -1, reason |-> [text |-> "", arg |-> 0]]

InitAgg == InitPipeline(AggRows, {SliderDefault}, {MinOrdersDefault})

InitCannibal ==
    InitPipeline(CannibalRows, {SliderMin, SliderDefault, SliderMax},
                 MinOrdersMin..MaxMinOrders)

InitHarvest == InitPipeline(HarvestRows, {SliderDefault}, {MinOrdersDefault})

SpecAgg == InitAgg /\ [][Next]_vars
SpecCannibal == InitCannibal /\ [][Next]_vars
SpecHarvest == InitHarvest /\ [][Next]_vars

----------------------------------------------------------------------------
(* determine_winner called on its own, on every group within the bounds    *)

\* Amounts of the rows handed to determine_winner.  Orders are positive
\* (line 184).
OrderVals == {1, 2}
SalesVals == {0, 1, 2, 3}
SpendVals == {0, 1, 2, 4}

GroupRow(label, o, sa, sp) ==
    [idx |-> label, orders_val |-> o, sales_val |-> sa, spend_val |-> sp,
     calculated_roas |-> calculated_roas(sa, sp)]

\* The group of rows with the given amounts; row i carries the label i - 1.
GroupOf(f) ==
    [i \in DOMAIN f |-> GroupRow(i - 1, f[i][1], f[i][2], f[i][3])]

\* The slider's values (lines 46-51).
SliderValues ==
    { t \in SliderMin..SliderMax : (t - SliderMin) % SliderStep = 0 }

\* A threshold no slider position gives: the first multiple of 100 per cent
\* above the improvement assumed for a zero-ROAS sales leader.
BeyondThreshold == (InfiniteImprovement + 1) * 100

Thresholds == {SliderMin, SliderDefault, SliderMax, BeyondThreshold}

MinOrders == MinOrdersMin..MaxMinOrders

NoRet == [idx |-> -1, reason |-> [text |-> "", arg |-> 0]]

InitWinner ==
    /\ pc = "call"
    /\ \E n \in 1..MaxGroup :
           \E f \in [1..n -> OrderVals \X SalesVals \X SpendVals] :
               group = GroupOf(f)
    /\ improvement_thresh = SliderDefault
    /\ min_orders = MinOrdersDefault
    /\ ret = NoRet
    /\ df = <<>>
    /\ df_agg = <<>>
    /\ roas_threshold = SliderDefault
    /\ min_orders_for_roas = MinOrdersDefault
    /\ results = <<>>
    /\ tab1_msg = ""
    /\ new_opps = <<>>
    /\ disp_opps = <<>>
    /\ tab2_msg = ""

\* One call determine_winner(group, thresh, minord) with any settings.
CallDetermineWinner ==
    /\ pc = "call"
    /\ \E thresh \in Thresholds, minord \in MinOrders :
           /\ improvement_thresh' = thresh
           /\ min_orders' = minord
           /\ ret' = determine_winner(group, thresh, minord)
    /\ pc' = "returned"
    /\ UNCHANGED <<df, df_agg, roas_threshold, min_orders_for_roas, results,
                   tab1_msg, new_opps, disp_opps, tab2_msg, group>>

NextWinner == CallDetermineWinner

SpecWinner == InitWinner /\ [][NextWinner]_vars

----------------------------------------------------------------------------
(* Properties of determine_winner (under SpecWinner)                       *)

Returned == pc = "returned"

\* The leaders of the group of the call, as the function picks them.
SalesLeader == loc(group, idxmax_sales(group))
RoasLeader == loc(group, idxmax_roas(group))
LeadersDiffer == SalesLeader.idx # RoasLeader.idx

\* improvement >= threshold, with improvement =
\* (roas_leader.roas - sales_leader.roas) / sales_leader.roas, unbounded when
\* sales_leader.roas = 0, and threshold = thresh / 100; in integers:
\* with roas_leader.roas = a/b and sales_leader.roas = c/d, c > 0,
\* (a/b - c/d) / (c/d) >= thresh/100  <=>  100 * (a*d - c*b) >= thresh * b * c
ImprovementAtLeast(thresh) ==
    LET a == RoasLeader.sales_val
        b == RoasLeader.spend_val
        c == SalesLeader.sales_val
        d == SalesLeader.spend_val
    IN  IF d = 0 \/ c = 0 THEN TRUE
        ELSE b > 0 /\ 100 * (a * d - c * b) >= thresh * b * c

InContract(thresh) == thresh >= SliderMin /\ thresh <= SliderMax

C3_SameRow ==
    (Returned /\ ~LeadersDiffer) =>
        /\ ret.idx = SalesLeader.idx
        /\ ret.reason = BestSalesAndRoas

\* The same row leads both, min_orders exceeds its orders, the threshold is
\* beyond the slider, and its ROAS is 0.
C3_Witness ==
    /\ Returned /\ ~LeadersDiffer /\ Len(group) > 1
    /\ min_orders > SalesLeader.orders_val
    /\ improvement_thresh = BeyondThreshold
    /\ FracIsZero(SalesLeader.calculated_roas)
    /\ ret.reason = BestSalesAndRoas

\* C4: when the sales leader's ROAS is 0 and the ROAS leader's is positive,
\* the ROAS leader is returned at every finite threshold, provided it has
\* min_orders orders.
C4_ZeroRoasAnyThreshold ==
    ( /\ Returned
      /\ FracIsZero(SalesLeader.calculated_roas)
      /\ ~FracIsZero(RoasLeader.calculated_roas)
      /\ RoasLeader.orders_val >= min_orders ) =>
        ret.idx = RoasLeader.idx

\* C5: if the ROAS leader wins at the threshold of the call, it wins at
\* every lower threshold; if the sales leader wins, it wins at every higher
\* threshold (same group, same min_orders).
C5_Monotone ==
    (Returned /\ LeadersDiffer) =>
        \A t \in Thresholds \cup SliderValues :
            /\ (t <= improvement_thresh /\ ret.idx = RoasLeader.idx) =>
                   determine_winner(group, t, min_orders).idx = RoasLeader.idx
            /\ (t >= improvement_thresh /\ ret.idx = SalesLeader.idx) =>
                   determine_winner(group, t, min_orders).idx = SalesLeader.idx

\* The ROAS leader wins at the slider's maximum although some lower-ROAS
\* row leads sales, and loses at a threshold beyond.
C5_Witness ==
    /\ Returned /\ LeadersDiffer
    /\ improvement_thresh = SliderMax
    /\ ret.idx = RoasLeader.idx
    /\ ~FracIsZero(SalesLeader.calculated_roas)
    /\ determine_winner(group, BeyondThreshold, min_orders).idx = SalesLeader.idx

\* C9: a returned row other than the sales leader has a ROAS strictly
\* greater than the sales leader's, at least (1 + thresh/100) times it, and
\* at least min_orders orders.
C9_ChallengerIsBetter ==
    (Returned /\ ret.idx # SalesLeader.idx) =>
        LET w == loc(group, ret.idx).calculated_roas
            s == SalesLeader.calculated_roas
        IN  /\ FracGt(w, s)
            /\ FracGeq(w, Frac((100 + improvement_thresh) * s.n, 100 * s.d))
            /\ loc(group, ret.idx).orders_val >= min_orders

\* Position of the first row of the group whose sales (ROAS) no row exceeds.
MaxSalesPositions ==
    { i \in 1..Len(group) :
        \A j \in 1..Len(group) : group[j].sales_val <= group[i].sales_val }
MaxRoasPositions ==
    { i \in 1..Len(group) :
        \A j \in 1..Len(group) :
            group[j].sales_val * (IF group[i].spend_val > 0 THEN group[i].spend_val ELSE 1)
              * (IF group[j].spend_val > 0 THEN 1 ELSE 0)
            <= group[i].sales_val * (IF group[j].spend_val > 0 THEN group[j].spend_val ELSE 1)
              * (IF group[i].spend_val > 0 THEN 1 ELSE 0) }
MinOf(S) == CHOOSE i \in S : \A j \in S : i <= j

\* C10: the sales leader is the first row in the group's order among those
\* with the maximum sales, the ROAS leader the first among those with the
\* maximum ROAS, and the returned row is one of the two.
C10_FirstInOrder ==
    Returned =>
        /\ idxmax_sales(group) = group[MinOf(MaxSalesPositions)].idx
        /\ idxmax_roas(group) = group[MinOf(MaxRoasPositions)].idx
        /\ ret.idx \in { group[MinOf(MaxSalesPositions)].idx,
                          group[MinOf(MaxRoasPositions)].idx }
        /\ ret = determine_winner(group, improvement_thresh, min_orders)

\* Two rows tie on the maximum sales and on the maximum (positive) ROAS, and
\* the winner is the first of them.
C10_Witness ==
    /\ Returned
    /\ Cardinality(MaxSalesPositions) > 1
    /\ Cardinality(MaxRoasPositions) > 1
    /\ ~FracIsZero(group[1].calculated_roas)
    /\ ret.idx = group[1].idx

----------------------------------------------------------------------------
(* Properties of the script (under SpecAgg, SpecCannibal, SpecHarvest)     *)

Aggregated == pc \in {"roas", "tab1", "tab2", "done"}
Tab1Done == pc \in {"tab2", "done"}
Tab2Done == pc = "done"

RECURSIVE Total(_, _)
\* the sum of column col over a table
Total(d, col) == IF d = <<>> THEN 0 ELSE Head(d)[col] + Total(Tail(d), col)

AggKey(r) == <<r.search_term, r.campaign, r.ad_group, r.norm_match>>

\* C6: aggregation loses nothing: each aggregated row holds the sums of the
\* cleaned rows with its key, every cleaned row has its key in the
\* aggregated table, and so the totals of orders, sales and spend agree.
C6_MassPreserved ==
    Aggregated =>
        /\ \A i \in 1..Len(df_agg) :
               /\ df_agg[i].orders_val = SumOver(df, AggKey(df_agg[i]), "orders")
               /\ df_agg[i].sales_val = SumOver(df, AggKey(df_agg[i]), "sales")
               /\ df_agg[i].spend_val = SumOver(df, AggKey(df_agg[i]), "spend")
        /\ \A j \in 1..Len(df) :
               \E i \in 1..Len(df_agg) : AggKey(df_agg[i]) = KeyOf(df[j])
        /\ Total(df_agg, "orders_val") = Total(df, "orders")
        /\ Total(df_agg, "sales_val") = Total(df, "sales")
        /\ Total(df_agg, "spend_val") = Total(df, "spend")

\* The aggregated rows with orders that share their search term with
\* another such row: the rows of the conflict groups.
Conflicting ==
    { i \in 1..Len(df_agg) :
        /\ df_agg[i].orders_val > 0
        /\ \E j \in 1..Len(df_agg) :
               /\ j # i
               /\ df_agg[j].orders_val > 0
               /\ df_agg[j].search_term = df_agg[i].search_term }

ConflictTerms == { df_agg[i].search_term : i \in Conflicting }

ResultsOf(term) == { k \in 1..Len(results) : results[k].Search_Term = term }

\* C1: in the action table every conflict group has exactly one row with
\* status KEEP, and each of its other rows has status NEGATE.
C1_OneKeepPerGroup ==
    Tab1Done =>
        \A term \in ConflictTerms :
            /\ Cardinality(ResultsOf(term))
                 = Cardinality({ i \in Conflicting : df_agg[i].search_term = term })
            /\ Cardinality({ k \in ResultsOf(term) : results[k].Status = KEEP }) = 1
            /\ \A k \in ResultsOf(term) : results[k].Status \in {KEEP, NEGATE}

\* A conflict group whose kept row is not its first row.
C1_Witness ==
    /\ Tab1Done
    /\ \E term \in ConflictTerms :
           \E k \in ResultsOf(term) :
               /\ results[k].Status = KEEP
               /\ \E m \in ResultsOf(term) : m < k /\ results[m].Status = NEGATE

\* What identifies a row in the action table.
ShownOfAgg(r) ==
    <<r.search_term, r.campaign, r.ad_group, r.spend_val, r.sales_val, r.orders_val>>
ShownOfResult(r) ==
    <<r.Search_Term, r.Campaign, r.Ad_Group, r.Spend, r.Sales, r.Orders>>

\* C8: the action table holds exactly the rows of the conflict groups, each
\* once; with no conflict group it is empty and success is reported.
C8_ExactlyConflictRows ==
    Tab1Done =>
        /\ Len(results) = Cardinality(Conflicting)
        /\ \A i \in Conflicting :
               Cardinality({ k \in 1..Len(results) :
                               ShownOfResult(results[k]) = ShownOfAgg(df_agg[i]) })
                 = Cardinality({ j \in Conflicting :
                               ShownOfAgg(df_agg[j]) = ShownOfAgg(df_agg[i]) })
        /\ \A k \in 1..Len(results) :
               \E i \in Conflicting : ShownOfResult(results[k]) = ShownOfAgg(df_agg[i])
        /\ (Conflicting = {}) <=> (tab1_msg = "success")

\* A conflict group is shown while a row without orders of the same term
\* is left out.
C8_Witness ==
    /\ Tab1Done
    /\ results # <<>>
    /\ \E i \in 1..Len(df_agg) :
           /\ df_agg[i].orders_val = 0
           /\ df_agg[i].search_term \in ConflictTerms
           /\ \A k \in 1..Len(results) :
                  ShownOfResult(results[k]) # ShownOfAgg(df_agg[i])

\* Two terms are the same but for the case of their letters.
SameIgnoringCase(s, t) == upper(s) = upper(t)

Harvestable(r) ==
    /\ r.norm_match # EXACT
    /\ r.orders_val >= 1
    /\ \A i \in 1..Len(df_agg) :
           df_agg[i].norm_match = EXACT =>
               ~SameIgnoringCase(df_agg[i].search_term, r.search_term)

\* C7: every harvest row is a non-EXACT row with at least one order whose
\* term is, ignoring case, the term of no EXACT aggregated row.
C7_HarvestExcludesExact ==
    Tab2Done =>
        /\ \A k \in 1..Len(new_opps) : Harvestable(new_opps[k])
        /\ \A k \in 1..Len(disp_opps) : Harvestable(disp_opps[k])

\* A sold non-EXACT row is left out because an EXACT row without orders
\* has its term in another case, while another row is harvested.
C7_Witness ==
    /\ Tab2Done
    /\ disp_opps # <<>>
    /\ \E i, j \in 1..Len(df_agg) :
           /\ df_agg[i].norm_match = EXACT
           /\ df_agg[i].orders_val = 0
           /\ df_agg[j].norm_match # EXACT
           /\ df_agg[j].orders_val >= 1
           /\ df_agg[j].search_term # df_agg[i].search_term
           /\ SameIgnoringCase(df_agg[j].search_term, df_agg[i].search_term)
           /\ \A k \in 1..Len(new_opps) : new_opps[k].idx # df_agg[j].idx

============================================================================
